---- MODULE Spec2Model ----
(***************************************************************************)
(* SimplePullProvider (gacha/providers/simple_pull_provider.py).           *)
(*                                                                         *)
(* Two specifications share the definitions below.                         *)
(*   SpecBuild  runs _create_pools loop iteration by loop iteration over   *)
(*              prototypes and loot-table groups drawn from bounded sets,  *)
(*              and then serves the public operations.                     *)
(*   Spec       starts from the registry built from one small              *)
(*              configuration and explores pull() and the generator it     *)
(*              returns against a catalog that changes underneath it.      *)
(*                                                                         *)
(* Rates are integers in an arbitrary unit; a per-item rate (a Python      *)
(* float quotient) is kept as an exact reduced fraction [num, den].        *)
(***************************************************************************)
EXTENDS Integers, Sequences, FiniteSets, TLC

VARIABLES
    pc,                \* "pools" / "groups": position in _create_pools; "serving": constructed
    pool_prototype,    \* loop variable of line 61 (code, name, is_available)
    pool,              \* the Pool under construction (line 65)
    loot_table_group,  \* loop variable of line 66
    pools,             \* the dict built by _create_pools; self._pools once serving
    seen_codes,        \* codes of the prototypes the "pools" collection has yielded
    hist,              \* history of the configuration that was fed to _create_pools
    catalog,           \* the entity provider's items, item types and item ranks
    gen,               \* the generator object returned by the latest pull()
    last,              \* the Pull most recently delivered to the consumer of gen
    yielded,           \* number of Pull records gen has delivered
    effects,           \* what gen has done so far: samples drawn, get_item calls, next() calls
    call               \* the latest call of a public operation and its outcome

vars == <<pc, pool_prototype, pool, loot_table_group, pools, seen_codes, hist,
          catalog, gen, last, yielded, effects, call>>

buildVars == <<pc, pool_prototype, pool, loot_table_group, pools, seen_codes, hist>>

----------------------------------------------------------------------------
(* Program constants and bounds *)

DEFAULT_PULL_COUNT_MIN == 1
DEFAULT_PULL_COUNT_MAX == 10

\* isclose(rate, 0.0) holds for rates up to this many rate units
RateEpsilon == 1

\* a pool under construction is fed no group that would take it past MaxItems entries
MaxItems == 5
\* largest pull_count passed to pull()
MaxCount == 11

----------------------------------------------------------------------------
(* Values *)

\* Python's None
None == [none |-> TRUE]

Abs(a) == IF a < 0 THEN -a ELSE a

RECURSIVE Gcd(_, _)
Gcd(a, b) == IF b = 0 THEN a ELSE Gcd(b, a % b)

\* a / n for n > 0, as a reduced fraction
Divide(a, n) ==
    LET g == Gcd(Abs(a), n)
    IN  [num |-> a \div g, den |-> n \div g]

Frac(a, n) == [num |-> a, den |-> n]
FracEq(p, q) == p.num * q.den = q.num * p.den
FracAdd(p, q) == [num |-> p.num * q.den + q.num * p.den, den |-> p.den * q.den]
FracPositive(p) == (p.num > 0 /\ p.den > 0) \/ (p.num < 0 /\ p.den < 0)

\* gacha.utils.isclose
isclose(a, b) == Abs(a - b) <= RateEpsilon

\* gacha.models.pulls.Item / Pool / Pull, gacha.models.VirtualItem
Item(id, name, rate) == [id |-> id, name |-> name, rate |-> rate]
NewPool(name) == [name |-> name, items |-> <<>>]
MkPull(id, name, count, is_rare) ==
    [id |-> id, name |-> name, count |-> count, is_rare |-> is_rare]
VirtualItem(id, name) == [id |-> id, name |-> name]

----------------------------------------------------------------------------
(* The configuration inputs *)

Codes == {"a", "b"}
\* a code no prototype carries
UnknownCode == "zz"
CodeInputs == Codes \cup {UnknownCode}

PoolName(code) == IF code = "a" THEN "Alpha" ELSE "Beta"

PoolHeaders ==
    {[code |-> c, name |-> PoolName(c), is_available |-> av] :
        c \in Codes, av \in BOOLEAN}

\* ItemResolverInterface.resolve: zero, one or many items per reference
resolve(ref) ==
    CASE ref = "none" -> <<>>
      [] ref = "one"  -> <<VirtualItem("x", "X")>>
      [] ref = "two"  -> <<VirtualItem("y", "Y"), VirtualItem("z", "Z")>>

Group(rate, item_ids) == [rate |-> rate, item_ids |-> item_ids]

Groups ==
    { Group(-1, <<"one">>),
      Group(0, <<"one">>),
      Group(RateEpsilon, <<"one">>),
      Group(6, <<>>),
      Group(6, <<"none">>),
      Group(6, <<"none", "one">>),
      Group(6, <<"one", "two">>),
      Group(10, <<"two", "one", "two">>) }

----------------------------------------------------------------------------
(* The dict self._pools: <<code, pool>> pairs in insertion order *)

DictKeys(d) == [i \in 1..Len(d) |-> d[i][1]]
DictHas(d, k) == \E i \in 1..Len(d) : d[i][1] = k
DictGet(d, k) ==
    IF DictHas(d, k)
    THEN d[CHOOSE i \in 1..Len(d) : d[i][1] = k][2]
    ELSE None
DictSet(d, k, v) ==
    IF DictHas(d, k)
    THEN [i \in 1..Len(d) |-> IF d[i][1] = k THEN <<k, v>> ELSE d[i]]
    ELSE Append(d, <<k, v>>)

----------------------------------------------------------------------------
(* _create_pools *)

\* lines 73-76: every reference resolved, the results concatenated
RECURSIVE ResolveAll(_)
ResolveAll(item_ids) ==
    IF item_ids = <<>> THEN <<>>
    ELSE resolve(Head(item_ids)) \o ResolveAll(Tail(item_ids))

\* the rate split over the references of the group instead of over its resolved items
GroupEntriesPerReference(g, items) ==
    [i \in 1..Len(items) |->
        Item(items[i].id, items[i].name, Divide(g.rate, Len(g.item_ids)))]

\* lines 80-82: one Item per resolved item, each with rate / len(items)
GroupEntries(g, items) ==
    [i \in 1..Len(items) |->
        Item(items[i].id, items[i].name, Divide(g.rate, Len(items)))]

\* lines 67-84: one iteration of the loop over the loot table
AddGroup(pool_items, g) ==
    IF g.rate < 0 \/ isclose(g.rate, 0) THEN pool_items
    ELSE IF Len(g.item_ids) = 0 THEN pool_items
    ELSE LET items == ResolveAll(g.item_ids)
         IN  IF Len(items) = 0 THEN pool_items
             ELSE pool_items \o GroupEntries(g, items)

\* the check of line 85 left out
RegisterAlways(d, code, p) == DictSet(d, code, p)

\* lines 85-89: a pool without items is ignored, any other is registered
Register(d, code, p) ==
    IF Len(p.items) = 0 THEN d ELSE DictSet(d, code, p)

\* lines 66-84 for a whole loot table
RECURSIVE AddGroups(_, _)
AddGroups(pool_items, loot_table) ==
    IF loot_table = <<>> THEN pool_items
    ELSE AddGroups(AddGroup(pool_items, Head(loot_table)), Tail(loot_table))

\* lines 59-90 for a whole collection of prototypes (with their loot tables)
RECURSIVE CreatePools(_, _)
CreatePools(d, prototypes) ==
    IF prototypes = <<>> THEN d
    ELSE LET p == Head(prototypes)
         IN  IF ~p.is_available THEN CreatePools(d, Tail(prototypes))
             ELSE CreatePools(
                    Register(d, p.code,
                        [name |-> p.name, items |-> AddGroups(<<>>, p.loot_table)]),
                    Tail(prototypes))

----------------------------------------------------------------------------
(* The catalog behind the entity provider *)

ItemRecord(id, item_type_id, rank_id) ==
    [id |-> id, item_type_id |-> item_type_id, rank_id |-> rank_id]
SingleType == [is_multi_pull |-> FALSE, multi_pull_min |-> 0, multi_pull_max |-> 0]
MultiType(lo, hi) == [is_multi_pull |-> TRUE, multi_pull_min |-> lo, multi_pull_max |-> hi]
Rank(is_rare) == [is_rare |-> is_rare]

ItemIds == {"x", "y", "z"}

\* x is a stackable item of rank "gold"; y and z are plain items of rank "iron"
Catalog(present, stack, gold) ==
    [items      |-> [i \in ItemIds |->
                       IF i \notin present THEN None
                       ELSE IF i = "x" THEN ItemRecord(i, "stack", "gold")
                       ELSE ItemRecord(i, "plain", "iron")],
     item_types |-> [t \in {"stack", "plain"} |-> IF t = "stack" THEN stack ELSE SingleType],
     item_ranks |-> [r \in {"gold", "iron"} |-> IF r = "gold" THEN gold ELSE None]]

Catalogs ==
    { Catalog(ItemIds, MultiType(2, 5), Rank(TRUE)),
      Catalog(ItemIds, SingleType, Rank(FALSE)),
      Catalog(ItemIds, None, None),
      Catalog({"y", "z"}, MultiType(2, 5), Rank(TRUE)),
      Catalog({"x", "y"}, SingleType, Rank(TRUE)),
      Catalog(ItemIds, MultiType(0, 2), Rank(TRUE)),
      Catalog(ItemIds, MultiType(3, 3), Rank(FALSE)) }

\* gacha.utils.entity_provider_utils
get_item(c, id) == IF id \in DOMAIN c.items THEN c.items[id] ELSE None
get_item_type(c, id) == IF id \in DOMAIN c.item_types THEN c.item_types[id] ELSE None
get_item_rank(c, id) == IF id \in DOMAIN c.item_ranks THEN c.item_ranks[id] ELSE None

----------------------------------------------------------------------------
(* The generator object made by _pull_items *)

\* no generator: the latest pull() raised, or pull() was never called
NoGen ==
    [state |-> "none", pool |-> None, pull_count |-> 0, items |-> <<>>,
     pos |-> 0, stop_value |-> None, raised |-> ""]

\* calling a generator function runs none of its body
NewGen(p, pull_count) ==
    [state |-> "created", pool |-> p, pull_count |-> pull_count, items |-> <<>>,
     pos |-> 0, stop_value |-> None, raised |-> ""]

NoEffects == [sampled |-> 0, lookups |-> 0, requested |-> 0]

\* the max(...) with pull_count_min of line 41 left out
ClampCountNoMin(pull_count) ==
    IF pull_count < DEFAULT_PULL_COUNT_MAX THEN pull_count ELSE DEFAULT_PULL_COUNT_MAX

\* line 41
ClampCount(pull_count) ==
    LET lo == IF pull_count < DEFAULT_PULL_COUNT_MAX THEN pull_count
              ELSE DEFAULT_PULL_COUNT_MAX
    IN  IF DEFAULT_PULL_COUNT_MIN > lo THEN DEFAULT_PULL_COUNT_MIN ELSE lo

\* line 53
IsRare(item_rank) == item_rank # None /\ item_rank.is_rare

\* the upper bound taken as inclusive
RangeInclusive(lo, hi) == lo..hi

\* line 55: range(multi_pull_min, multi_pull_max)
Range(lo, hi) == lo..(hi - 1)

----------------------------------------------------------------------------
(* History of the configuration, in the words of the specification *)

\* a group with a positive rate, a reference and a resolved item
PositiveGroup(g) ==
    g.rate > 0 /\ Len(g.item_ids) >= 1 /\ Len(ResolveAll(g.item_ids)) >= 1

\* a positive group whose rate is not approximately zero
AcceptedGroup(g) == PositiveGroup(g) /\ ~isclose(g.rate, 0)

NoHist ==
    [positive |-> {}, accepted |-> {}, cur_positive |-> FALSE, cur_accepted |-> FALSE]

\* the history _create_pools leaves behind after a whole collection of prototypes
HistOf(prototypes) ==
    LET Some(p, P(_)) == \E i \in 1..Len(p.loot_table) : P(p.loot_table[i])
        With(P(_)) == {prototypes[i].code : i \in
                         {j \in 1..Len(prototypes) :
                            prototypes[j].is_available /\ Some(prototypes[j], P)}}
    IN  [positive |-> With(PositiveGroup), accepted |-> With(AcceptedGroup),
         cur_positive |-> FALSE, cur_accepted |-> FALSE]

----------------------------------------------------------------------------
(* _create_pools, one loop iteration per step *)

Called(op, code, count, raised, result) ==
    [op |-> op, code |-> code, count |-> count, raised |-> raised, result |-> result]

Step(op) == Called(op, "", 0, "", None)

serveVars == <<catalog, gen, last, yielded, effects>>

\* the is_available check of line 62 left out
NextPoolIgnoringAvailability(h) ==
    /\ pc = "pools"
    /\ h.code \notin seen_codes
    /\ seen_codes' = seen_codes \cup {h.code}
    /\ pool_prototype' = h
    /\ loot_table_group' = None
    /\ pc' = "groups"
    /\ pool' = NewPool(h.name)
    /\ hist' = [hist EXCEPT !.cur_positive = FALSE, !.cur_accepted = FALSE]
    /\ call' = Step("next_pool")
    /\ UNCHANGED <<pools, serveVars>>

\* lines 61-65: the collection yields the next prototype; a disabled one is ignored
NextPool(h) ==
    /\ pc = "pools"
    /\ h.code \notin seen_codes
    /\ seen_codes' = seen_codes \cup {h.code}
    /\ pool_prototype' = h
    /\ loot_table_group' = None
    /\ IF ~h.is_available
       THEN pc' = "pools" /\ pool' = pool
       ELSE pc' = "groups" /\ pool' = NewPool(h.name)
    /\ hist' = [hist EXCEPT !.cur_positive = FALSE, !.cur_accepted = FALSE]
    /\ call' = Step("next_pool")
    /\ UNCHANGED <<pools, serveVars>>

\* lines 66-84: the loot table yields the next group
NextGroup(g) ==
    /\ pc = "groups"
    /\ Len(AddGroup(pool.items, g)) <= MaxItems
    /\ loot_table_group' = g
    /\ pool' = [pool EXCEPT !.items = AddGroup(pool.items, g)]
    /\ hist' = [hist EXCEPT !.cur_positive = @ \/ PositiveGroup(g),
                           !.cur_accepted = @ \/ AcceptedGroup(g)]
    /\ call' = Step("next_group")
    /\ UNCHANGED <<pc, pool_prototype, pools, seen_codes, serveVars>>

\* lines 85-89: the loot table is exhausted
EndGroups ==
    /\ pc = "groups"
    /\ pools' = Register(pools, pool_prototype.code, pool)
    /\ pc' = "pools"
    /\ hist' = [hist EXCEPT
                  !.positive = IF pool_prototype.is_available /\ hist.cur_positive
                               THEN @ \cup {pool_prototype.code} ELSE @,
                  !.accepted = IF pool_prototype.is_available /\ hist.cur_accepted
                               THEN @ \cup {pool_prototype.code} ELSE @]
    /\ call' = Step("end_groups")
    /\ UNCHANGED <<pool_prototype, pool, loot_table_group, seen_codes, serveVars>>

\* lines 90 and 21: the collection is exhausted; the locals of _create_pools are gone
EndPools ==
    /\ pc = "pools"
    /\ pc' = "serving"
    /\ pool_prototype' = None
    /\ pool' = None
    /\ loot_table_group' = None
    /\ hist' = [hist EXCEPT !.cur_positive = FALSE, !.cur_accepted = FALSE]
    /\ call' = Step("init")
    /\ UNCHANGED <<pools, seen_codes, serveVars>>

----------------------------------------------------------------------------
(* The public operations *)

\* lines 23-24
GetPoolCodes ==
    /\ pc = "serving"
    /\ call' = Called("get_pool_codes", "", 0, "", DictKeys(pools))
    /\ UNCHANGED <<buildVars, serveVars>>

\* lines 26-27
HasPool(pool_code) ==
    /\ pc = "serving"
    /\ call' = Called("has_pool", pool_code, 0, "", DictGet(pools, pool_code) # None)
    /\ UNCHANGED <<buildVars, serveVars>>

\* lines 29-34
GetPoolName(pool_code) ==
    /\ pc = "serving"
    /\ LET p == DictGet(pools, pool_code)
       IN  IF p = None
           THEN call' = Called("get_pool_name", pool_code, 0, "ValueError", None)
           ELSE call' = Called("get_pool_name", pool_code, 0, "", p.name)
    /\ UNCHANGED <<buildVars, serveVars>>

\* line 45: choices(pool.items, rates, k): k entries, each any entry of the pool
\* (every rate of a registered pool is positive)
Choices(population, k) ==
    {[i \in 1..k |-> population[s[i]]] : s \in [1..k -> 1..Len(population)]}

\* an unknown pool answered with an exhausted generator instead of an exception
PullNeverRaises(pool_code, pull_count) ==
    /\ pc = "serving"
    /\ LET p == DictGet(pools, pool_code)
       IN  /\ call' = Called("pull", pool_code, pull_count, "", None)
           /\ gen' = IF p = None THEN [NoGen EXCEPT !.state = "done"]
                     ELSE NewGen(p, ClampCount(pull_count))
    /\ last' = None
    /\ yielded' = 0
    /\ effects' = NoEffects
    /\ UNCHANGED <<buildVars, catalog>>

\* line 45 run by pull() itself instead of by the first next()
PullSampling(pool_code, pull_count) ==
    /\ pc = "serving"
    /\ LET p == DictGet(pools, pool_code)
       IN  IF p = None
           THEN /\ call' = Called("pull", pool_code, pull_count, "ValueError", None)
                /\ gen' = NoGen
                /\ effects' = NoEffects
           ELSE /\ call' = Called("pull", pool_code, pull_count, "", None)
                /\ \E items \in Choices(p.items, ClampCount(pull_count)) :
                      gen' = [NewGen(p, ClampCount(pull_count)) EXCEPT
                                !.state = "suspended", !.items = items]
                /\ effects' = [NoEffects EXCEPT !.sampled = ClampCount(pull_count)]
    /\ last' = None
    /\ yielded' = 0
    /\ UNCHANGED <<buildVars, catalog>>

\* lines 36-42: raises for an unknown pool, else returns the generator, not yet started
Pull(pool_code, pull_count) ==
    /\ pc = "serving"
    /\ LET p == DictGet(pools, pool_code)
       IN  IF p = None
           THEN /\ call' = Called("pull", pool_code, pull_count, "ValueError", None)
                /\ gen' = NoGen
           ELSE /\ call' = Called("pull", pool_code, pull_count, "", None)
                /\ gen' = NewGen(p, ClampCount(pull_count))
    /\ last' = None
    /\ yielded' = 0
    /\ effects' = NoEffects
    /\ UNCHANGED <<buildVars, catalog>>

\* a yield of line 55 or 57 for items[pos]: the generator is suspended there and
\* the consumer holds p
Yield(items, pos, p) ==
    /\ gen' = [gen EXCEPT !.state = "suspended", !.items = items, !.pos = pos]
    /\ last' = p
    /\ yielded' = yielded + 1

\* the generator ends after taking pos entries from items, by StopIteration
\* (raised = "", stop_value the value of a return statement) or by an exception;
\* the list it held is gone
Stop(pos, stop_value, raised) ==
    /\ gen' = [gen EXCEPT !.state = IF raised = "" THEN "done" ELSE "failed",
                          !.items = <<>>, !.pos = pos,
                          !.stop_value = stop_value, !.raised = raised]
    /\ UNCHANGED <<last, yielded>>

\* lines 46-57: the loop goes on after the pos entries of items it has consumed, up
\* to the next yield or to the end of the generator
Resume(items, pos) ==
    IF pos = Len(items)
    THEN /\ Stop(pos, None, "")
         /\ effects' = [effects EXCEPT !.requested = @ + 1,
                                       !.sampled = Len(items)]
    ELSE /\ effects' = [effects EXCEPT !.requested = @ + 1, !.lookups = @ + 1,
                                       !.sampled = Len(items)]
         /\ LET pulled_item == items[pos + 1]
                item == get_item(catalog, pulled_item.id)
            IN  IF item = None
                THEN Stop(pos + 1,
                          MkPull(pulled_item.id, pulled_item.name, 1, FALSE), "")
                ELSE LET item_type == get_item_type(catalog, item.item_type_id)
                         item_rank == get_item_rank(catalog, item.rank_id)
                         is_rare == IsRare(item_rank)
                     IN  IF item_type # None /\ item_type.is_multi_pull
                         THEN LET r == Range(item_type.multi_pull_min,
                                             item_type.multi_pull_max)
                              IN  IF r = {}
                                  THEN Stop(pos + 1, None, "IndexError")
                                  ELSE \E q \in r :
                                         Yield(items, pos + 1,
                                               MkPull(item.id, pulled_item.name, q, is_rare))
                         ELSE Yield(items, pos + 1,
                                    MkPull(item.id, pulled_item.name, 1, is_rare))

\* next() on the generator: the first one runs line 45, every one the loop
GenNext ==
    /\ pc = "serving"
    /\ gen.state \in {"created", "suspended"}
    /\ IF gen.state = "created"
       THEN \E items \in Choices(gen.pool.items, gen.pull_count) : Resume(items, 0)
       ELSE Resume(gen.items, gen.pos)
    /\ call' = Step("next")
    /\ UNCHANGED <<buildVars, catalog>>

\* the catalog is the entity provider's: it changes without the provider's doing
CatalogChange ==
    /\ pc = "serving"
    /\ catalog' \in Catalogs \ {catalog}
    /\ UNCHANGED <<buildVars, gen, last, yielded, effects, call>>

----------------------------------------------------------------------------
(* Specifications *)

Prototype(code, is_available, loot_table) ==
    [code |-> code, name |-> PoolName(code), is_available |-> is_available,
     loot_table |-> loot_table]

\* pool "a" holds x alone, pool "b" holds y and z
PullConfig ==
    << Prototype("a", TRUE, <<Group(6, <<"one">>)>>),
       Prototype("b", TRUE, <<Group(0, <<"one">>), Group(6, <<"two">>)>>) >>

Counts == (-1 .. 2) \cup (DEFAULT_PULL_COUNT_MAX .. MaxCount)

BuildCounts == {DEFAULT_PULL_COUNT_MIN - 1, DEFAULT_PULL_COUNT_MIN}

InitServe ==
    /\ gen = NoGen
    /\ last = None
    /\ yielded = 0
    /\ effects = NoEffects

\* the provider constructed from PullConfig
Init ==
    /\ pc = "serving"
    /\ pool_prototype = None
    /\ pool = None
    /\ loot_table_group = None
    /\ pools = CreatePools(<<>>, PullConfig)
    /\ seen_codes = {PullConfig[i].code : i \in 1..Len(PullConfig)}
    /\ hist = HistOf(PullConfig)
    /\ catalog \in Catalogs
    /\ InitServe
    /\ call = Step("init")

Next ==
    \/ \E c \in CodeInputs, n \in Counts : Pull(c, n)
    \/ GenNext
    \/ CatalogChange

Spec == Init /\ [][Next]_vars

\* __init__ at line 21, entering _create_pools (line 60)
InitBuild ==
    /\ pc = "pools"
    /\ pool_prototype = None
    /\ pool = None
    /\ loot_table_group = None
    /\ pools = <<>>
    /\ seen_codes = {}
    /\ hist = NoHist
    /\ catalog = Catalog(ItemIds, MultiType(2, 5), Rank(TRUE))
    /\ InitServe
    /\ call = Step("create_pools")

NextBuild ==
    \/ \E h \in PoolHeaders : NextPool(h)
    \/ \E g \in Groups : NextGroup(g)
    \/ EndGroups
    \/ EndPools
    \/ GetPoolCodes
    \/ \E c \in CodeInputs : HasPool(c)
    \/ \E c \in CodeInputs : GetPoolName(c)
    \/ \E c \in CodeInputs, n \in BuildCounts : Pull(c, n)
    \/ GenNext

SpecBuild == InitBuild /\ [][NextBuild]_vars

----------------------------------------------------------------------------
(* Properties *)

RegisteredCodes == {pools[i][1] : i \in 1..Len(pools)}

\* a next() that delivered a Pull
Yielded == yielded' = yielded + 1

\* a next() that ended the generator at an entry whose item get_item did not find
StoppedAtMissingItem == gen.state = "done" /\ gen.stop_value # None

\* C1: when get_item finds no item for a sampled entry, the consumer is given the
\* degraded Pull (id and name of the entry, quantity 1, not rare) for that draw, one
\* Pull for every entry taken so far, and nothing after it.
C1_DegradedPullDelivered ==
    StoppedAtMissingItem =>
        /\ yielded = gen.pos
        /\ last = gen.stop_value
        /\ last.count = 1 /\ ~last.is_rare

\* C2: a fully consumed pull delivers one Pull per draw, in draw order: never more
\* than min(max(count, 1), 10), the i-th with the name of the i-th sampled entry,
\* and exactly min(max(count, 1), 10) when no catalog lookup missed its item.
C2_OnePullPerDraw ==
    /\ (call.op = "pull" /\ call.raised = "") =>
         gen.pull_count =
           (LET m == IF call.count > 1 THEN call.count ELSE 1
            IN  IF m < 10 THEN m ELSE 10)
    /\ yielded <= gen.pull_count
    /\ gen.state = "suspended" =>
         /\ yielded = gen.pos
         /\ last.name = gen.items[yielded].name
    /\ (gen.state \in {"done", "failed"} /\ gen.stop_value = None) =>
         yielded = gen.pull_count

\* C2 holds of every generator that did not raise IndexError
C2_ExceptIndexError ==
    /\ yielded <= gen.pull_count
    /\ gen.state = "suspended" =>
         /\ yielded = gen.pos
         /\ last.name = gen.items[yielded].name
    /\ (gen.state = "done" /\ gen.stop_value = None) => yielded = gen.pull_count

\* C3: pull never raises for an out-of-range count of a registered pool: a count
\* <= 1 leaves the provider and the returned generator exactly as count = 1 does,
\* a count >= 10 exactly as count = 10 does, any other count is taken as it is.
C3_CountClamped ==
    (call.op = "pull" /\ call.code \in RegisteredCodes) =>
        /\ call.raised = ""
        /\ gen = NewGen(DictGet(pools, call.code),
                        IF call.count <= 1 THEN 1
                        ELSE IF call.count >= 10 THEN 10 ELSE call.count)
        /\ last = None /\ yielded = 0 /\ effects = NoEffects

C3_Witness ==
    /\ call.op = "pull" /\ call.count > 10 /\ call.code = "b"
    /\ gen.state = "created" /\ gen.pull_count = 10

\* C4: pull with a code that is not registered raises ValueError at the call, for
\* every count: there is no generator, no sample is drawn, no catalog lookup is
\* made, no Pull is produced and the registry is left as it was.
C4_UnknownPoolRaises ==
    [][(call'.op = "pull" /\ call'.code \notin RegisteredCodes) =>
          /\ call'.raised = "ValueError"
          /\ gen' = NoGen
          /\ effects' = NoEffects
          /\ yielded' = 0 /\ last' = None
          /\ pools' = pools]_vars

C4_Witness ==
    /\ call.op = "pull" /\ call.code = UnknownCode /\ call.count = 2
    /\ call.raised = "ValueError"
    /\ gen = NoGen

\* C5: in every state of the construction and of the service that follows it, every
\* registered pool has at least one entry and every entry a strictly positive rate.
C5_PoolsNonEmptyPositive ==
    \A i \in 1..Len(pools) :
        LET items == pools[i][2].items
        IN  /\ Len(items) >= 1
            /\ \A j \in 1..Len(items) : FracPositive(items[j].rate)

\* constructed from a configuration one of whose two prototypes was dropped, and a
\* Pull drawn from the other
C5_Witness ==
    /\ pc = "serving"
    /\ seen_codes = Codes /\ Len(pools) = 1
    /\ call.op = "next" /\ yielded = 1

RECURSIVE SumRates(_, _, _)
SumRates(items, from, to) ==
    IF from > to THEN Frac(0, 1)
    ELSE FracAdd(items[from].rate, SumRates(items, from + 1, to))

\* C6: an accepted group of rate r whose references resolve, concatenated, to
\* n >= 1 items appends exactly n entries after the entries the pool already has
\* (which stay as they are, whatever their ids), in resolution order, each of rate
\* r / n, so that the n rates sum to r.
C6_GroupAppendsEvenShares ==
    [][(call'.op = "next_group" /\ AcceptedGroup(loot_table_group')) =>
          LET g == loot_table_group'
              resolved == ResolveAll(g.item_ids)
              n == Len(resolved)
              old == pool.items
              new == pool'.items
          IN  /\ n >= 1
              /\ Len(new) = Len(old) + n
              /\ SubSeq(new, 1, Len(old)) = old
              /\ \A i \in 1..n :
                    /\ new[Len(old) + i].id = resolved[i].id
                    /\ new[Len(old) + i].name = resolved[i].name
                    /\ FracEq(new[Len(old) + i].rate, Frac(g.rate, n))
              /\ FracEq(SumRates(new, Len(old) + 1, Len(new)), Frac(g.rate, 1))]_vars

\* a group of three items appended to a pool that already holds one of them
C6_Witness ==
    /\ call.op = "next_group"
    /\ loot_table_group = Group(6, <<"one", "two">>)
    /\ Len(pool.items) = 4
    /\ pool.items[1].id = pool.items[2].id
    /\ pool.items[1].rate = Frac(6, 1) /\ pool.items[2].rate = Frac(2, 1)

\* C7 as stated: get_pool_codes() returns exactly the codes of the available
\* prototypes with a group of rate > 0, a reference and a resolved item, and
\* has_pool is false for the code of every other prototype.
C7_RegisteredIffPositiveRate ==
    /\ call.op = "get_pool_codes" => RegisteredCodes = hist.positive
    /\ (call.op = "has_pool" /\ call.code \in seen_codes) =>
         (call.result <=> call.code \in hist.positive)

\* C7, amended: a group whose rate is negative, zero or approximately zero
\* (isclose), that has no reference or that resolves to nothing adds no entry;
\* get_pool_codes() returns, each once, exactly the codes of the available
\* prototypes with a group of positive and not approximately zero rate, a reference
\* and a resolved item; has_pool is false for the code of every other prototype.
C7_RegisteredIffAccepted ==
    [][/\ (call'.op = "next_group" /\ ~AcceptedGroup(loot_table_group')) =>
            pool'.items = pool.items
       /\ call'.op = "get_pool_codes" =>
            /\ {call'.result[i] : i \in 1..Len(call'.result)} = hist'.accepted
            /\ Len(call'.result) = Cardinality(hist'.accepted)
       /\ (call'.op = "has_pool" /\ call'.code \in seen_codes') =>
            (call'.result <=> call'.code \in hist'.accepted)]_vars

\* both prototypes were available; "a" had groups of positive rate, none accepted
C7_Witness ==
    /\ call.op = "get_pool_codes"
    /\ call.result = <<"b">>
    /\ hist.positive = {"a", "b"}

\* C8: a Pull delivered for an item found in the catalog has a quantity q with
\* min <= q < max when the item's type exists and is multi-unit with bounds min
\* and max, and the quantity 1 when the type is missing or is not multi-unit.
C8_QuantityWithinBounds ==
    [][Yielded =>
          LET item == get_item(catalog, last'.id)
              item_type == get_item_type(catalog, item.item_type_id)
          IN  /\ item # None
              /\ IF item_type # None /\ item_type.is_multi_pull
                 THEN /\ item_type.multi_pull_min <= last'.count
                      /\ last'.count < item_type.multi_pull_max
                 ELSE last'.count = 1]_vars

C8_Witness ==
    /\ call.op = "next"
    /\ last # None /\ last.id = "x" /\ last.count = 4
    /\ get_item_type(catalog, "stack") = MultiType(2, 5)

\* C9: every Pull delivered has a quantity >= 1.
C9_QuantityAtLeastOne ==
    (last # None) => last.count >= 1

\* C10 as stated: no more entries have been sampled, and no more get_item calls
\* made, than the consumer has requested elements.
C10_DrawsNotAhead ==
    /\ effects.sampled <= effects.requested
    /\ effects.lookups <= effects.requested

\* C10, amended: pull() itself draws no sample and makes no catalog lookup; the
\* first request for an element draws all min(max(count, 1), 10) samples at once;
\* the catalog lookups for draw i are not made before element i is requested, and
\* rarity and quantity of the Pull delivered are those of the catalog as it is
\* when the element is requested.
C10_LazyLookups ==
    [][/\ effects'.requested = 0 => (effects'.sampled = 0 /\ effects'.lookups = 0)
       /\ effects'.requested >= 1 => effects'.sampled = gen'.pull_count
       /\ effects'.lookups <= effects'.requested
       /\ Yielded =>
            LET item == get_item(catalog', last'.id)
                item_type == get_item_type(catalog', item.item_type_id)
            IN  /\ effects'.lookups = yielded'
                /\ last'.is_rare = IsRare(get_item_rank(catalog', item.rank_id))
                /\ last'.count \in
                     (IF item_type # None /\ item_type.is_multi_pull
                      THEN item_type.multi_pull_min .. (item_type.multi_pull_max - 1)
                      ELSE {1})]_vars

\* ten entries sampled by the first request, one catalog lookup made
C10_Witness ==
    /\ effects.requested = 1 /\ effects.sampled = 10 /\ effects.lookups = 1
    /\ yielded = 1

====
